---- MODULE Spec2Model ----
(***************************************************************************)
(* The trace stream reader of src/trace.c: per-CPU ring buffers written by *)
(* producers, merged by timestamp (__find_next_entry) and drained by       *)
(* trace_read_pipe through a per-session trace_seq output buffer.          *)
(*                                                                         *)
(* The ring buffer, trace_seq and the signal machinery are kernel          *)
(* services; they are modelled at the call sites of src/trace.c by what    *)
(* the calls do.  User buffers are valid (copy_to_user copies everything). *)
(* The loops over the CPUs (is_trace_empty, __find_next_entry) take one    *)
(* step per CPU: producers write lock-free between the turns, and only     *)
(* access_lock keeps another reader out of a scan of __find_next_entry.    *)
(* The files are opened and released at run time (trace_open_pipe,         *)
(* trace_release_pipe); a file is released when its last reference is      *)
(* dropped, which is never while a read(2) on it is in flight.             *)
(* Module startup and teardown (print_event_init, print_event_exit) are    *)
(* modelled by their own steps under SpecStartup.                          *)
(***************************************************************************)
EXTENDS Integers, Sequences, FiniteSets, TLC

(* ------------------------------ bounds -------------------------------- *)
MaxAppend == 2          \* records appended by the producers in one run
MaxCalls == 2           \* read(2) calls issued in one run of Spec
MaxCallsDeep == 3       \* read(2) calls issued in one run of the narrower specifications
MaxTs == 2              \* timestamps are 1..MaxTs
RBCap == 1              \* records one per-CPU buffer holds before overwrite
NumClass == 1           \* __stop_print_event_class - __start_print_event_class
MaxAppendLost == 3      \* records appended in one run of the overwrite scenario
MaxSignals == 1         \* signals sent in one run
MaxAppendBatch == 3     \* records appended before the reads of the batch scenario
MaxTsBatch == 3         \* timestamps of the batch scenario are 1..MaxTsBatch
RBCapBatch == 3         \* records one per-CPU buffer holds in the batch scenario

CPUs == {0, 1}          \* for_each_possible_cpu
Threads == {1, 2}       \* tasks calling read(2)
Sessions == {1, 2}      \* open files (struct print_event_iterator)
NoThread == 0

(* -------------------------- program constants ------------------------- *)
PAGE_SIZE == 4096
EAGAIN == 11
EBUSY == 16
EINTR == 4
EINVAL == 22
ENODEV == 19
ENOMEM == 12

\* sizeof(((struct print_event_entry *)0)->id): the ID field is 8 bits wide.
IdSize == 1

\* (1 << (sizeof(id) * 8)) - 1
PRINT_EVENT_ID_MAX == 2 ^ (IdSize * 8) - 1

Ids == 0 .. NumClass                \* NumClass itself is an unregistered ID
LineSizes == {2500, 5000}           \* bytes a registered formatter writes
CntSet == {0, 2000, 4096}            \* requested lengths of read(2)
NCPU == Cardinality(CPUs)

VARIABLES
    rb,           \* rb[cpu]: unconsumed records of the CPU, oldest first
    rb_size,      \* records one per-CPU buffer of RB_BUFFER_SIZE holds
    reader,       \* reader[cpu]: the oldest record sits on the reader page
    lost,         \* lost[cpu]: records evicted since the last consume
    f_flags,      \* f_flags[s]: TRUE when the file was opened O_NONBLOCK
    opened,       \* opened[s]: the file is open (iter allocated, not yet freed)
    nsignals,     \* history: the number of signals sent
    mutex,        \* mutex[s]: thread holding iter->mutex, or NoThread
    access_lock,  \* thread holding the static access_lock, or NoThread
    seq,          \* seq[s]: iter->seq, the session's output buffer
    iter,         \* iter[s]: iter->ent, ->cpu, ->ts, ->lost_events
    pc,           \* pc[t]: where thread t is in trace_read_pipe
    sess,         \* sess[t]: filp->private_data of the call of t
    cnt,          \* cnt[t]: the cnt argument of the call of t
    sret,         \* sret[t]: the local sret; the return value once pc = "ret"
    ret,          \* ret[t]: the local ret of trace_wait_pipe
    sigp,         \* sigp[t]: "none", "signal" or "fatal" pending on the task
    clock,        \* clock[cpu]: the last timestamp written on the CPU
    nwritten,     \* nwritten[cpu]: records ever written on the CPU
    ncalls,       \* history: ncalls[t] is the number of read(2) calls of t
    scan_cpu,     \* scan_cpu[t]: the local cpu of the for_each_possible_cpu
                  \* loop task t is in (is_trace_empty, __find_next_entry)
    next,         \* next[t]: the locals next, next_lost, next_cpu, next_ts
                  \* of the __find_next_entry task t is in
    emitted,      \* history: every consume, with the record formatted (uid, ts,
                  \* id, cpu), the record removed (gone) and the line written
    ipc,          \* where print_event_init / print_event_exit is
    num_class,    \* __stop_print_event_class - __start_print_event_class
    next_id,      \* the local id of print_event_init
    ring_buffer_waiting,  \* the symbol ring_buffer_wait is resolved
    ring_buffer,  \* what of the store is allocated: the struct, the CPU pages
    proc,         \* what is published: the directory, the node trace_pipe
    classes,      \* classes[k]: class->id and class->buffer of the k-th class
    init_ret      \* the value print_event_init returned

\* The state of the module's startup and teardown.
startup == <<ipc, num_class, next_id, ring_buffer_waiting, ring_buffer, proc,
             classes, init_ret>>

\* The state of the stream: the store, the sessions and the read calls.
stream == <<rb, rb_size, reader, lost, f_flags, opened, nsignals, mutex, access_lock, seq, iter, pc,
            sess, cnt, sret, ret, sigp, clock, nwritten, ncalls, scan_cpu, next,
            emitted>>

vars == <<rb, rb_size, reader, lost, f_flags, opened, nsignals, mutex, access_lock, seq, iter, pc,
          sess, cnt, sret, ret, sigp, clock, nwritten, ncalls, scan_cpu, next,
          emitted, startup>>

Min(a, b) == IF a < b THEN a ELSE b

(* ----------------------------- records -------------------------------- *)
NoEnt == [uid |-> 0, ts |-> 0, id |-> 0, sz |-> 0]

\* No line was written.
NoLine == [fmt |-> "", uid |-> 0, id |-> 0, n |-> 0]

\* The iterator fields below seq after the memset of line 230.
ZeroIter == [ent |-> NoEnt, lost_events |-> 0, cpu |-> 0, ts |-> 0]

(* ----------------------------- trace_seq ------------------------------ *)
trace_seq_init == [buf |-> <<>>, len |-> 0, readpos |-> 0, full |-> FALSE]

trace_seq_used(q) == Min(q.len, PAGE_SIZE)

trace_seq_has_overflowed(q) == q.full \/ q.len > PAGE_SIZE

\* Writes a line (fmt, uid, id, n bytes), or nothing at all when it does not
\* fit: the line fits when len + n < size.
trace_seq_printf(q, line) ==
    IF q.full THEN q
    ELSE IF q.len + line.n < PAGE_SIZE
         THEN [q EXCEPT !.buf = Append(@, line), !.len = @ + line.n]
         ELSE [q EXCEPT !.full = TRUE]

\* Mutant: the copy does not advance the read position.
trace_seq_to_user_no_advance(q, n) ==
    IF n = 0 THEN [ret |-> 0, seq |-> q]
    ELSE IF trace_seq_used(q) <= q.readpos THEN [ret |-> -EBUSY, seq |-> q]
    ELSE [ret |-> Min(n, trace_seq_used(q) - q.readpos), seq |-> q]

\* Mutant: the copy is not clamped to the unread bytes.
trace_seq_to_user_unclamped(q, n) ==
    IF n = 0 THEN [ret |-> 0, seq |-> q]
    ELSE IF trace_seq_used(q) <= q.readpos THEN [ret |-> -EBUSY, seq |-> q]
    ELSE [ret |-> n, seq |-> [q EXCEPT !.readpos = @ + n]]

\* Copies up to n unread bytes to the user; -EBUSY when there are none.
trace_seq_to_user(q, n) ==
    IF n = 0 THEN [ret |-> 0, seq |-> q]
    ELSE IF trace_seq_used(q) <= q.readpos THEN [ret |-> -EBUSY, seq |-> q]
    ELSE LET k == Min(n, trace_seq_used(q) - q.readpos)
         IN  [ret |-> k, seq |-> [q EXCEPT !.readpos = @ + k]]

(* ---------------------------- ring buffer ----------------------------- *)
ring_buffer_empty_cpu(buffer, cpu) == buffer[cpu] = <<>>

\* ring_buffer_empty of the kernel: what ring_buffer_wait on all CPUs sleeps
\* on.
ring_buffer_empty(buffer) ==
    \A cpu \in CPUs : ring_buffer_empty_cpu(buffer, cpu)

\* One turn of the loop of is_trace_empty (lines 68-71) on the CPU cpu:
\* return 0 on a CPU that is not empty, return 1 (line 73) after the last
\* CPU, else the next turn.  Nothing keeps the producers, or the readers of
\* other sessions, out between two turns.
is_trace_empty_scan(buffer, cpu) ==
    IF ~ring_buffer_empty_cpu(buffer, cpu) THEN [done |-> TRUE, ret |-> 0]
    ELSE IF cpu + 1 >= NCPU THEN [done |-> TRUE, ret |-> 1]
    ELSE [done |-> FALSE, ret |-> 0]

\* A producer writes one record on a CPU.  The buffer was allocated with
\* RB_FL_OVERWRITE: a full buffer drops its oldest record that is not on the
\* reader page and counts it as lost.
ring_buffer_write(cpu, ts, id, sz) ==
    LET e == [uid |-> NCPU * nwritten[cpu] + cpu + 1, ts |-> ts, id |-> id,
              sz |-> sz]
        pinned == IF reader[cpu] THEN 1 ELSE 0
        q == rb[cpu]
    IN  /\ nwritten' = [nwritten EXCEPT ![cpu] = @ + 1]
        /\ clock' = [clock EXCEPT ![cpu] = ts]
        /\ IF Len(q) - pinned >= rb_size
           THEN /\ rb' = [rb EXCEPT ![cpu] =
                            SubSeq(q, 1, pinned) \o SubSeq(q, pinned + 2, Len(q)) \o <<e>>]
                /\ lost' = [lost EXCEPT ![cpu] = @ + 1]
           ELSE /\ rb' = [rb EXCEPT ![cpu] = Append(q, e)]
                /\ lost' = lost

(* ---------------------------- merge engine ---------------------------- *)
\* The locals of __find_next_entry as declared (lines 120-123): next = NULL,
\* next_lost = 0, next_ts = 0, next_cpu = -1.
NoNext == [ent |-> NoEnt, lost_events |-> 0, cpu |-> -1, ts |-> 0]

\* One turn of the loop of __find_next_entry (lines 126-142) on the CPU cpu;
\* nx is (next, next_lost, next_cpu, next_ts) so far.
\* Mutant: a later CPU wins a tie (ts <= next_ts).
find_next_scan_tie(buffer, lostc, cpu, nx) ==
    IF ring_buffer_empty_cpu(buffer, cpu) THEN nx
    ELSE LET ent == Head(buffer[cpu])
             ts == ent.ts
         IN  IF nx.ent = NoEnt \/ ts <= nx.ts
             THEN [ent |-> ent, lost_events |-> lostc[cpu], cpu |-> cpu,
                   ts |-> ts]
             ELSE nx

\* Mutant: the first non-empty CPU wins whatever its timestamp.
find_next_scan_first(buffer, lostc, cpu, nx) ==
    IF ring_buffer_empty_cpu(buffer, cpu) THEN nx
    ELSE LET ent == Head(buffer[cpu])
             ts == ent.ts
         IN  IF nx.ent = NoEnt
             THEN [ent |-> ent, lost_events |-> lostc[cpu], cpu |-> cpu,
                   ts |-> ts]
             ELSE nx

\* Mutant: the lost count is the one of the last CPU peeked (lost_events
\* instead of next_lost).
find_next_scan_last_lost(buffer, lostc, cpu, nx) ==
    IF ring_buffer_empty_cpu(buffer, cpu) THEN nx
    ELSE LET ent == Head(buffer[cpu])
             ts == ent.ts
         IN  IF nx.ent = NoEnt \/ ts < nx.ts
             THEN [ent |-> ent, lost_events |-> lostc[cpu], cpu |-> cpu,
                   ts |-> ts]
             ELSE [nx EXCEPT !.lost_events = lostc[cpu]]

\* Lines 128-141: skip an empty CPU; else peek its oldest record and keep it
\* when it is the first one found or strictly older than the one kept.
find_next_scan(buffer, lostc, cpu, nx) ==
    IF ring_buffer_empty_cpu(buffer, cpu) THEN nx
    ELSE LET ent == Head(buffer[cpu])
             ts == ent.ts
         IN  IF nx.ent = NoEnt \/ ts < nx.ts
             THEN [ent |-> ent, lost_events |-> lostc[cpu], cpu |-> cpu,
                   ts |-> ts]
             ELSE nx

\* The turns for the CPUs cpu, cpu + 1, ... on a store nobody writes
\* meanwhile.
RECURSIVE find_next_loop(_, _, _, _)
find_next_loop(buffer, lostc, cpu, nx) ==
    IF cpu >= NCPU THEN nx
    ELSE find_next_loop(buffer, lostc, cpu + 1,
                        find_next_scan(buffer, lostc, cpu, nx))

\* __find_next_entry on a store nobody writes during the call.
find_next_entry(buffer, lostc) == find_next_loop(buffer, lostc, 0, NoNext)

(* ----------------------------- formatting ----------------------------- *)
TRACE_TYPE_PARTIAL_LINE == "PARTIAL_LINE"
TRACE_TYPE_HANDLED == "HANDLED"
TRACE_TYPE_NO_CONSUME == "NO_CONSUME"

\* Mutant: the bound check is off by one (id <= number of classes).
find_print_event_off_by_one(id) == id <= NumClass

find_print_event(id) == id < NumClass

trace_handle_return(q) ==
    IF trace_seq_has_overflowed(q) THEN TRACE_TYPE_PARTIAL_LINE
    ELSE TRACE_TYPE_HANDLED

\* Decimal digits of a non-negative id.
RECURSIVE Digits(_)
Digits(n) == IF n < 10 THEN 1 ELSE 1 + Digits(n \div 10)

\* strlen of "Unknown id %d\n"
UnknownLen(id) == 11 + Digits(id) + 1

\* class->format of a registered class: one trace_seq_printf of the line.
class_format(q, ent) ==
    LET q1 == trace_seq_printf(q, [fmt |-> "class", uid |-> ent.uid,
                                   id |-> ent.id, n |-> ent.sz])
    IN  [ret |-> trace_handle_return(q1), seq |-> q1]

print_trace_fmt_line(q, ent) ==
    IF trace_seq_has_overflowed(q)
    THEN [ret |-> TRACE_TYPE_PARTIAL_LINE, seq |-> q]
    ELSE IF find_print_event(ent.id)
         THEN class_format(q, ent)
         ELSE LET q1 == trace_seq_printf(q, [fmt |-> "Unknown id", uid |-> ent.uid,
                                             id |-> ent.id, n |-> UnknownLen(ent.id)])
              IN  [ret |-> trace_handle_return(q1), seq |-> q1]

(* ------------------------------- Init --------------------------------- *)
\* The class descriptors as the linker collects them: no ID, no store.
NoClass == [id |-> 0, buffer |-> FALSE]

\* The module after a successful print_event_init with NumClass classes.
Loaded ==
    /\ ipc = "loaded"
    /\ num_class = NumClass
    /\ next_id = NumClass
    /\ ring_buffer_waiting = TRUE
    /\ ring_buffer = [struct |-> TRUE, pages |-> TRUE]
    /\ proc = [dir |-> TRUE, node |-> TRUE]
    /\ classes = [k \in 0 .. NumClass - 1 |-> [id |-> k, buffer |-> TRUE]]
    /\ init_ret = 0

\* The store is empty, no file is open and no read call was issued.
Closed ==
    /\ rb = [c \in CPUs |-> <<>>]
    /\ reader = [c \in CPUs |-> FALSE]
    /\ lost = [c \in CPUs |-> 0]
    /\ f_flags = [s \in Sessions |-> FALSE]
    /\ opened = [s \in Sessions |-> FALSE]
    /\ nsignals = 0
    /\ mutex = [s \in Sessions |-> NoThread]
    /\ access_lock = NoThread
    /\ seq = [s \in Sessions |-> trace_seq_init]
    /\ iter = [s \in Sessions |-> ZeroIter]
    /\ pc = [t \in Threads |-> "idle"]
    /\ sess = [t \in Threads |-> 1]
    /\ cnt = [t \in Threads |-> 0]
    /\ sret = [t \in Threads |-> 0]
    /\ ret = [t \in Threads |-> 0]
    /\ sigp = [t \in Threads |-> "none"]
    /\ clock = [c \in CPUs |-> 0]
    /\ nwritten = [c \in CPUs |-> 0]
    /\ ncalls = [t \in Threads |-> 0]
    /\ scan_cpu = [t \in Threads |-> 0]
    /\ next = [t \in Threads |-> NoNext]
    /\ emitted = <<>>

\* The module is loaded with per-CPU buffers of RBCap records.
Init ==
    /\ Loaded
    /\ rb_size = RBCap
    /\ Closed

\* The module is loaded with per-CPU buffers that hold the whole batch.
InitBatch ==
    /\ Loaded
    /\ rb_size = RBCapBatch
    /\ Closed

\* The number of records written so far.
RECURSIVE SumOver(_, _)
SumOver(f, S) ==
    IF S = {} THEN 0
    ELSE LET x == CHOOSE y \in S : TRUE IN f[x] + SumOver(f, S \ {x})

NWritten == SumOver(nwritten, CPUs)

\* The number of read(2) calls issued so far.
NCalls == SumOver(ncalls, Threads)

(* ------------------------------ producers ----------------------------- *)
\* A producer appends a record; the ring buffer stamps it with the clock of
\* the CPU, which never runs backwards.
Produce(cpu, ts, id, sz) ==
    /\ ts >= clock[cpu]
    /\ ring_buffer_write(cpu, ts, id, sz)
    /\ UNCHANGED <<reader, f_flags, opened, nsignals, ret, startup, rb_size, scan_cpu, next, mutex, access_lock, seq, iter, pc, sess,
                   cnt, sret, sigp, ncalls, emitted>>

\* A signal is sent to a task inside read(2).  The call looks at pending
\* signals at the label waitagain (fatal ones) and in ring_buffer_wait (all),
\* so a signal sent before one of them acts as one sent when the call gets
\* there; a signal sent once ring_buffer_wait has returned is not seen by
\* line 94 and stays pending while the call goes on.
Signal(t, kind) ==
    /\ \/ pc[t] \in {"waiting", "woken"}
       \/ pc[t] = "waitagain" /\ kind = "fatal"
    /\ sigp[t] = "none"
    /\ nsignals' = nsignals + 1
    /\ sigp' = [sigp EXCEPT ![t] = kind]
    /\ UNCHANGED <<rb, reader, lost, f_flags, opened, ret, startup, rb_size, scan_cpu, next, mutex, access_lock, seq, iter,
                   pc, sess, cnt, sret, clock, nwritten, ncalls, emitted>>

fatal_signal_pending(t) == sigp[t] = "fatal"

signal_pending(t) == sigp[t] # "none"

(* --------------------------- trace_read_pipe -------------------------- *)
\* Mutant: iter->mutex is never taken.
mutex_trylock_unlocked(s) == TRUE

mutex_trylock(s) == mutex[s] = NoThread

\* Mutant: O_NONBLOCK is ignored.
nonblocking_ignored(s) == FALSE

\* filp->f_flags & O_NONBLOCK
nonblocking(s) == f_flags[s]

\* Mutant: the format loop runs without the store-wide lock.
access_trylock_unlocked == TRUE

access_trylock == access_lock = NoThread

\* The label out: unlock iter->mutex and return val.  Returning to user
\* mode runs the handler of a pending non-fatal signal; the argument cnt
\* goes out of scope.
out(t, val) ==
    /\ mutex' = [mutex EXCEPT ![sess[t]] = NoThread]
    /\ pc' = [pc EXCEPT ![t] = "ret"]
    /\ sret' = [sret EXCEPT ![t] = val]
    /\ sigp' = [sigp EXCEPT ![t] = IF @ = "signal" THEN "none" ELSE @]
    /\ cnt' = [cnt EXCEPT ![t] = 0]

\* kzalloc(sizeof(*iter), GFP_KERNEL): the allocation succeeds or not.
kzalloc == {TRUE, FALSE}

\* The flags of open(2): the file of slot 1 is opened blocking, the file of
\* slot 2 with O_NONBLOCK.
OpenNonblock(s) == s = 2

\* Lines 47-62: open(2) of trace_pipe on the free slot s: a zeroed iterator
\* with an empty seq and an unlocked mutex and return 0, or return -ENOMEM
\* with nothing allocated.
trace_open_pipe(s, ok) ==
    /\ ipc = "loaded"
    /\ ~opened[s]
    /\ IF ok
       THEN /\ opened' = [opened EXCEPT ![s] = TRUE]
            /\ f_flags' = [f_flags EXCEPT ![s] = OpenNonblock(s)]
            /\ seq' = [seq EXCEPT ![s] = trace_seq_init]
            /\ iter' = [iter EXCEPT ![s] = ZeroIter]
            /\ mutex' = [mutex EXCEPT ![s] = NoThread]
       ELSE UNCHANGED <<opened, f_flags, seq, iter, mutex>>
    /\ UNCHANGED <<rb, reader, lost, startup, rb_size, scan_cpu, next, access_lock, pc, sess, cnt, sret,
                   ret, sigp, clock, nwritten, ncalls, emitted, nsignals>>

\* A read(2) of task t on session s is in flight; it holds a reference to
\* the file.
Reading(t, s) ==
    /\ sess[t] = s
    /\ pc[t] \notin {"idle", "ret"}

\* Lines 280-288: the last reference to the file is dropped, so no read(2)
\* on it is in flight: mutex_destroy and kfree(iter).  What the session
\* held is gone.
trace_release_pipe(s) ==
    /\ opened[s]
    /\ \A t \in Threads : ~Reading(t, s)
    /\ opened' = [opened EXCEPT ![s] = FALSE]
    /\ UNCHANGED <<rb, reader, lost, f_flags, startup, rb_size, scan_cpu, next, mutex, access_lock, seq,
                   iter, pc, sess, cnt, sret, ret, sigp, clock, nwritten, ncalls,
                   emitted, nsignals>>

\* Lines 205-211: a task calls read(2) on session s with length n and gets
\* iter->mutex; it returns leftover text or resets the seq.
FlushLeftover(t, s, n) ==
    LET r == trace_seq_to_user(seq[s], n)
    IN  /\ pc[t] \in {"idle", "ret"}
        /\ opened[s]
        /\ ~fatal_signal_pending(t)
        /\ mutex_trylock(s)
        /\ ncalls' = [ncalls EXCEPT ![t] = @ + 1]
        /\ sess' = [sess EXCEPT ![t] = s]
        /\ IF r.ret # -EBUSY
           THEN /\ seq' = [seq EXCEPT ![s] = r.seq]
                /\ mutex' = mutex
                /\ pc' = [pc EXCEPT ![t] = "ret"]
                /\ sret' = [sret EXCEPT ![t] = r.ret]
                /\ UNCHANGED <<sigp, cnt>>
           ELSE /\ seq' = [seq EXCEPT ![s] = trace_seq_init]
                /\ mutex' = [mutex EXCEPT ![s] = t]
                /\ pc' = [pc EXCEPT ![t] = "waitagain"]
                /\ sret' = [sret EXCEPT ![t] = r.ret]
                /\ cnt' = [cnt EXCEPT ![t] = n]
                /\ sigp' = sigp
        /\ UNCHANGED <<rb, reader, lost, f_flags, opened, nsignals, ret, startup, rb_size, scan_cpu, next, access_lock, iter, clock,
                       nwritten, emitted>>

\* Lines 213-215: the label waitagain.
WaitAgain(t) ==
    /\ pc[t] = "waitagain"
    /\ IF fatal_signal_pending(t)
       THEN out(t, sret[t])
       ELSE /\ pc' = [pc EXCEPT ![t] = "wait_pipe"]
            /\ UNCHANGED <<mutex, sret, sigp, cnt>>
    /\ UNCHANGED <<rb, reader, lost, f_flags, opened, nsignals, ret, startup, rb_size, scan_cpu, next, access_lock, seq, iter, sess,
                   clock, nwritten, ncalls, emitted>>

\* Mutant: the call goes to sleep with iter->mutex held.
WaitPipe_keeps_mutex(t) ==
    LET s == sess[t]
        e == is_trace_empty_scan(rb, scan_cpu[t])
    IN  /\ pc[t] = "wait_pipe"
        /\ IF ~e.done
           THEN /\ scan_cpu' = [scan_cpu EXCEPT ![t] = @ + 1]
                /\ UNCHANGED <<pc, mutex, sret, sigp, cnt>>
           ELSE /\ scan_cpu' = [scan_cpu EXCEPT ![t] = 0]
                /\ IF e.ret # 0
                   THEN IF nonblocking(s)
                        THEN out(t, -EAGAIN)
                        ELSE /\ pc' = [pc EXCEPT ![t] = "waiting"]
                             /\ UNCHANGED <<mutex, sret, sigp, cnt>>
                   ELSE /\ pc' = [pc EXCEPT ![t] = "recheck"]
                        /\ sret' = [sret EXCEPT ![t] = 1]
                        /\ UNCHANGED <<mutex, sigp, cnt>>
        /\ UNCHANGED <<rb, reader, lost, f_flags, opened, nsignals, ret, startup, rb_size,
                       next, access_lock, seq, iter, sess, clock, nwritten,
                       ncalls, emitted>>

\* Lines 82-87, 98 and 217-219: the loop head of trace_wait_pipe, one turn
\* of the scan of is_trace_empty per step.  The scan that ends with 1
\* returns -EAGAIN or unlocks iter->mutex for the wait; the scan that ends
\* with 0 returns 1, which trace_read_pipe stores in sret before the
\* recheck.
WaitPipe(t) ==
    LET s == sess[t]
        e == is_trace_empty_scan(rb, scan_cpu[t])
    IN  /\ pc[t] = "wait_pipe"
        /\ IF ~e.done
           THEN /\ scan_cpu' = [scan_cpu EXCEPT ![t] = @ + 1]
                /\ UNCHANGED <<pc, mutex, sret, sigp, cnt>>
           ELSE /\ scan_cpu' = [scan_cpu EXCEPT ![t] = 0]
                /\ IF e.ret # 0
                   THEN IF nonblocking(s)
                        THEN out(t, -EAGAIN)
                        ELSE /\ mutex' = [mutex EXCEPT ![s] = NoThread]
                             /\ pc' = [pc EXCEPT ![t] = "waiting"]
                             /\ UNCHANGED <<sret, sigp, cnt>>
                   ELSE /\ pc' = [pc EXCEPT ![t] = "recheck"]
                        /\ sret' = [sret EXCEPT ![t] = 1]
                        /\ UNCHANGED <<mutex, sigp, cnt>>
        /\ UNCHANGED <<rb, reader, lost, f_flags, opened, nsignals, ret, startup, rb_size,
                       next, access_lock, seq, iter, sess, clock, nwritten,
                       ncalls, emitted>>

\* The value of ring_buffer_wait once it wakes: -EINTR on a pending signal,
\* 0 when the buffer is not empty.
ring_buffer_wait(t) == IF signal_pending(t) THEN -EINTR ELSE 0

\* Mutant: the error of ring_buffer_wait is dropped.
wait_failed_ignored(r) == FALSE

wait_failed(r) == r # 0

\* Lines 89-90: ring_buffer_wait sleeps until a signal is pending or the
\* buffer is not empty, and its value is stored in ret; iter->mutex is not
\* held.
RingBufferWait(t) ==
    /\ pc[t] = "waiting"
    /\ signal_pending(t) \/ ~ring_buffer_empty(rb)
    /\ ret' = [ret EXCEPT ![t] = ring_buffer_wait(t)]
    /\ pc' = [pc EXCEPT ![t] = "woken"]
    /\ UNCHANGED <<rb, reader, lost, f_flags, opened, nsignals, startup, rb_size, scan_cpu, next, mutex,
                   access_lock, seq, iter, sess, cnt, sret, sigp, clock, nwritten,
                   ncalls, emitted>>

\* Lines 92-95: the call retakes iter->mutex, then returns the error of a
\* failed wait or loops.  ret is dead after the test.
MutexLock(t) ==
    LET s == sess[t]
    IN  /\ pc[t] = "woken"
        /\ mutex_trylock(s)
        /\ IF wait_failed(ret[t])
           THEN out(t, ret[t])
           ELSE /\ mutex' = [mutex EXCEPT ![s] = t]
                /\ pc' = [pc EXCEPT ![t] = "wait_pipe"]
                /\ UNCHANGED <<sret, sigp, cnt>>
        /\ ret' = [ret EXCEPT ![t] = 0]
        /\ UNCHANGED <<rb, reader, lost, f_flags, opened, nsignals, startup, rb_size, scan_cpu, next,
                       access_lock, seq, iter, sess, clock, nwritten, ncalls,
                       emitted>>

\* Lines 222-232: the recheck, one turn of the scan of is_trace_empty per
\* step; the scan that ends with 1 returns 0 (sret = 0, goto out), the scan
\* that ends with 0 goes on to the clamp of cnt and the zero-fill.
Recheck(t) ==
    LET s == sess[t]
        e == is_trace_empty_scan(rb, scan_cpu[t])
    IN  /\ pc[t] = "recheck"
        /\ IF ~e.done
           THEN /\ scan_cpu' = [scan_cpu EXCEPT ![t] = @ + 1]
                /\ UNCHANGED <<pc, mutex, sret, sigp, cnt, seq, iter>>
           ELSE /\ scan_cpu' = [scan_cpu EXCEPT ![t] = 0]
                /\ IF e.ret # 0
                   THEN /\ out(t, 0)
                        /\ UNCHANGED <<seq, iter>>
                   ELSE /\ cnt' = [cnt EXCEPT ![t] =
                                     IF @ >= PAGE_SIZE THEN PAGE_SIZE - 1 ELSE @]
                        /\ seq' = [seq EXCEPT ![s] = trace_seq_init]
                        /\ iter' = [iter EXCEPT ![s] = ZeroIter]
                        /\ pc' = [pc EXCEPT ![t] = "access"]
                        /\ UNCHANGED <<mutex, sret, sigp>>
        /\ UNCHANGED <<rb, reader, lost, f_flags, opened, nsignals, ret, startup, rb_size,
                       next, access_lock, sess, clock, nwritten, ncalls, emitted>>

\* Line 234: mutex_lock(&access_lock).
LockAccess(t) ==
    /\ pc[t] = "access"
    /\ access_trylock
    /\ access_lock' = t
    /\ pc' = [pc EXCEPT ![t] = "next"]
    /\ UNCHANGED <<rb, reader, lost, f_flags, opened, nsignals, ret, startup, rb_size, scan_cpu, next, mutex, seq, iter, sess, cnt,
                   sret, sigp, clock, nwritten, ncalls, emitted>>

\* Line 260: the loop is left with q in iter->seq; unlock access_lock.
UnlockAccess(t, q) ==
    /\ access_lock' = NoThread
    /\ seq' = [seq EXCEPT ![sess[t]] = q]
    /\ pc' = [pc EXCEPT ![t] = "copy"]
    /\ UNCHANGED <<mutex, sret, sigp, cnt>>

\* Lines 263-277: copy to the user, reset a drained seq, and either go back
\* to waitagain or return.
Deliver(t) ==
    LET s == sess[t]
        r == trace_seq_to_user(seq[s], cnt[t])
        q2 == IF r.seq.readpos >= trace_seq_used(r.seq) THEN trace_seq_init
              ELSE r.seq
    IN  /\ pc[t] = "copy"
        /\ seq' = [seq EXCEPT ![s] = q2]
        /\ IF r.ret = -EBUSY
           THEN /\ pc' = [pc EXCEPT ![t] = "waitagain"]
                /\ sret' = [sret EXCEPT ![t] = r.ret]
                /\ UNCHANGED <<mutex, sigp, cnt>>
           ELSE out(t, r.ret)
        /\ UNCHANGED <<rb, reader, lost, f_flags, opened, nsignals, ret, startup, rb_size, scan_cpu, next, access_lock,
                       iter, sess, clock, nwritten, ncalls, emitted>>

\* Line 235: trace_next_entry_inc, one turn of the loop of
\* __find_next_entry per step.  The peek moves the oldest record of the CPU
\* onto its reader page; producers write between the turns.  After the last
\* CPU the result goes to iter->ent, ->cpu, ->lost_events and ->ts (lines
\* 144-153, 159-160); a NULL entry ends the format loop.
NextEntry(t) ==
    LET s == sess[t]
        c == scan_cpu[t]
        nx == find_next_scan(rb, lost, c, next[t])
    IN  /\ pc[t] = "next"
        /\ reader' = [reader EXCEPT ![c] = ~ring_buffer_empty_cpu(rb, c)]
        /\ IF c + 1 < NCPU
           THEN /\ scan_cpu' = [scan_cpu EXCEPT ![t] = c + 1]
                /\ next' = [next EXCEPT ![t] = nx]
                /\ UNCHANGED <<pc, iter, mutex, access_lock, seq, sret, sigp, cnt>>
           ELSE /\ scan_cpu' = [scan_cpu EXCEPT ![t] = 0]
                /\ next' = [next EXCEPT ![t] = NoNext]
                /\ iter' = [iter EXCEPT ![s] = nx]
                /\ IF nx.ent = NoEnt
                   THEN UnlockAccess(t, seq[s])
                   ELSE /\ pc' = [pc EXCEPT ![t] = "fmt"]
                        /\ UNCHANGED <<mutex, access_lock, seq, sret, sigp, cnt>>
        /\ UNCHANGED <<rb, lost, f_flags, opened, nsignals, ret, startup, rb_size, sess,
                       clock, nwritten, ncalls, emitted>>

\* ring_buffer_consume: remove the oldest record of the CPU, if any.
ring_buffer_consume(buffer, cpu) ==
    IF ring_buffer_empty_cpu(buffer, cpu) THEN buffer
    ELSE [buffer EXCEPT ![cpu] = Tail(@)]

\* Lines 236-259: format iter->ent; roll back a partial line and leave the
\* loop, else consume and go on unless cnt bytes are ready.
FormatConsume(t) ==
    LET s == sess[t]
        save_len == seq[s].len
        f == print_trace_fmt_line(seq[s], iter[s].ent)
        cpu == iter[s].cpu
        gone == IF ring_buffer_empty_cpu(rb, cpu) THEN 0 ELSE Head(rb[cpu]).uid
        line == IF Len(f.seq.buf) > Len(seq[s].buf)
                THEN f.seq.buf[Len(f.seq.buf)] ELSE NoLine
    IN  /\ pc[t] = "fmt"
        /\ IF f.ret = TRACE_TYPE_PARTIAL_LINE
           THEN /\ UnlockAccess(t, [f.seq EXCEPT !.len = save_len])
                /\ UNCHANGED <<rb, reader, lost, emitted>>
           ELSE /\ IF f.ret # TRACE_TYPE_NO_CONSUME
                   THEN /\ rb' = ring_buffer_consume(rb, cpu)
                        /\ reader' = [reader EXCEPT ![cpu] = FALSE]
                        /\ lost' = [lost EXCEPT ![cpu] = 0]
                        /\ emitted' = Append(emitted,
                               [uid |-> iter[s].ent.uid, ts |-> iter[s].ent.ts,
                                id |-> iter[s].ent.id, cpu |-> cpu,
                                gone |-> gone, line |-> line])
                   ELSE UNCHANGED <<rb, reader, lost, emitted>>
                /\ IF trace_seq_used(f.seq) >= cnt[t]
                   THEN UnlockAccess(t, f.seq)
                   ELSE /\ seq' = [seq EXCEPT ![s] = f.seq]
                        /\ pc' = [pc EXCEPT ![t] = "next"]
                        /\ UNCHANGED <<mutex, access_lock, sret, sigp, cnt>>
        /\ UNCHANGED <<f_flags, opened, nsignals, ret, startup, rb_size, scan_cpu, next, iter, sess, clock, nwritten, ncalls>>

(* ------------------------------- Next --------------------------------- *)
\* Thread 1 reads the file of slot 1 and thread 2 reads either file: by the
\* symmetry of the threads this covers one task per file and two tasks on
\* the blocking file.
SessionsOf(t) == IF t = 1 THEN {1} ELSE Sessions

\* A producer appends a record: a registered class writes a line of one of
\* LineSizes, an unregistered id gets the line "Unknown id".
Producers ==
    /\ NWritten < MaxAppend
    /\ \E c \in CPUs, ts \in 1 .. MaxTs, id \in Ids, sz \in LineSizes :
          /\ find_print_event(id) \/ sz = 2500
          /\ Produce(c, ts, id, sz)

\* The steps of a read call of thread t that is in flight.
CallStep(t) ==
    \/ WaitAgain(t)
    \/ WaitPipe(t)
    \/ RingBufferWait(t)
    \/ MutexLock(t)
    \/ Recheck(t)
    \/ LockAccess(t)
    \/ NextEntry(t)
    \/ FormatConsume(t)
    \/ Deliver(t)

\* The file operations of trace_pipe_fops, the producers and the signals.
Next ==
    \/ Producers
    \/ \E s \in Sessions, ok \in kzalloc : trace_open_pipe(s, ok)
    \/ \E s \in Sessions : trace_release_pipe(s)
    \/ /\ nsignals < MaxSignals
       /\ \E t \in Threads, k \in {"signal", "fatal"} : Signal(t, k)
    \/ /\ NCalls < MaxCalls
       /\ \E t \in Threads, n \in CntSet : \E s \in SessionsOf(t) :
             FlushLeftover(t, s, n)
    \/ \E t \in Threads : CallStep(t)

Spec == Init /\ [][Next]_vars

\* Two tasks and two files that stay open, no signals.
NextRace ==
    \/ Producers
    \/ \E s \in Sessions, ok \in kzalloc : trace_open_pipe(s, ok)
    \/ /\ NCalls < MaxCallsDeep
       /\ \E t \in Threads, n \in CntSet : \E s \in SessionsOf(t) :
             FlushLeftover(t, s, n)
    \/ \E t \in Threads : CallStep(t)

SpecRace == Init /\ [][NextRace]_vars

\* Every record is appended before the first read call, with a timestamp
\* of its own and none overwriting (the buffers hold the whole batch); the
\* files stay open.
NextBatch ==
    \/ /\ NWritten < MaxAppendBatch
       /\ \A t \in Threads : pc[t] = "idle"
       /\ \E c \in CPUs, ts \in 1 .. MaxTsBatch, id \in Ids, sz \in LineSizes :
             /\ find_print_event(id) \/ sz = 2500
             /\ Len(rb[c]) < rb_size
             /\ \A d \in CPUs : \A i \in 1 .. Len(rb[d]) : rb[d][i].ts # ts
             /\ Produce(c, ts, id, sz)
    \/ \E s \in Sessions, ok \in kzalloc : trace_open_pipe(s, ok)
    \/ /\ nsignals < MaxSignals
       /\ \E t \in Threads, k \in {"signal", "fatal"} : Signal(t, k)
    \/ /\ NCalls < MaxCallsDeep
       /\ \E t \in Threads, n \in CntSet : \E s \in SessionsOf(t) :
             FlushLeftover(t, s, n)
    \/ \E t \in Threads : CallStep(t)

SpecBatch == InitBatch /\ [][NextBatch]_vars

\* Task t and its file: open, read, signals and release.
ReaderStep(t) ==
    \/ \E s \in SessionsOf(t), ok \in kzalloc : trace_open_pipe(s, ok)
    \/ \E s \in SessionsOf(t) : trace_release_pipe(s)
    \/ /\ nsignals < MaxSignals
       /\ \E k \in {"signal", "fatal"} : Signal(t, k)
    \/ /\ NCalls < MaxCallsDeep
       /\ \E n \in CntSet : \E s \in SessionsOf(t) : FlushLeftover(t, s, n)
    \/ CallStep(t)

\* A producer of the overwrite scenario appends a record of a registered
\* class.
ProduceLost(cpu, ts) ==
    /\ NWritten < MaxAppendLost
    /\ ts >= clock[cpu]
    /\ ring_buffer_write(cpu, ts, 0, 2500)
    /\ UNCHANGED <<reader, f_flags, opened, nsignals, ret, startup, rb_size, scan_cpu, next, mutex,
                   access_lock, seq, iter, pc, sess, cnt, sret, sigp, ncalls,
                   emitted>>

\* One reader on one session, producers overwriting full buffers.
NextLost ==
    \/ \E c \in CPUs, ts \in 1 .. MaxTs : ProduceLost(c, ts)
    \/ ReaderStep(1)

SpecLost == Init /\ [][NextLost]_vars

\* One reader and the producers; a call in flight that can take a step
\* eventually takes one (the scheduler runs a runnable task).
NextFair ==
    \/ Producers
    \/ ReaderStep(1)

SpecFair == Init /\ [][NextFair]_vars /\ WF_vars(CallStep(1))

\* One reader with one call in flight at a time, and the producers.
SpecSingle == Init /\ [][NextFair]_vars

(* ----------------------- startup and teardown ------------------------- *)
\* The class counts the linker may have collected.
ClassCounts == {0, 1, 2, 3, PRINT_EVENT_ID_MAX - 1, PRINT_EVENT_ID_MAX,
                PRINT_EVENT_ID_MAX + 1}

\* The module before print_event_init runs.
InitModule ==
    /\ ipc = "start"
    /\ num_class \in ClassCounts
    /\ next_id = 0
    /\ ring_buffer_waiting = FALSE
    /\ ring_buffer = [struct |-> FALSE, pages |-> FALSE]
    /\ proc = [dir |-> FALSE, node |-> FALSE]
    /\ classes = [k \in 0 .. num_class - 1 |-> NoClass]
    /\ init_ret = 0
    /\ rb = [c \in CPUs |-> <<>>]
    /\ rb_size = RBCap
    /\ reader = [c \in CPUs |-> FALSE]
    /\ lost = [c \in CPUs |-> 0]
    /\ f_flags = [s \in Sessions |-> FALSE]
    /\ opened = [s \in Sessions |-> FALSE]
    /\ nsignals = 0
    /\ mutex = [s \in Sessions |-> NoThread]
    /\ access_lock = NoThread
    /\ seq = [s \in Sessions |-> trace_seq_init]
    /\ iter = [s \in Sessions |-> ZeroIter]
    /\ pc = [t \in Threads |-> "idle"]
    /\ sess = [t \in Threads |-> 1]
    /\ cnt = [t \in Threads |-> 0]
    /\ sret = [t \in Threads |-> 0]
    /\ ret = [t \in Threads |-> 0]
    /\ sigp = [t \in Threads |-> "none"]
    /\ clock = [c \in CPUs |-> 0]
    /\ nwritten = [c \in CPUs |-> 0]
    /\ ncalls = [t \in Threads |-> 0]
    /\ scan_cpu = [t \in Threads |-> 0]
    /\ next = [t \in Threads |-> NoNext]
    /\ emitted = <<>>

\* return val from print_event_init
init_return(val) ==
    /\ ipc' = (IF val = 0 THEN "loaded" ELSE "failed")
    /\ init_ret' = val

\* Line 313: num_class >= PRINT_EVENT_ID_MAX
too_many_classes(n) == n >= PRINT_EVENT_ID_MAX

\* Lines 310-314: nothing to do without classes; too many classes.
CheckClasses ==
    /\ ipc = "start"
    /\ IF num_class = 0 THEN init_return(0)
       ELSE IF too_many_classes(num_class) THEN init_return(-EINVAL)
       ELSE /\ ipc' = "lookup"
            /\ init_ret' = init_ret
    /\ UNCHANGED <<num_class, next_id, ring_buffer_waiting, ring_buffer, proc,
                   classes, stream>>

\* Lines 316-317 and 40-45: kallsyms_lookup_name finds ring_buffer_wait or
\* does not.
LookupSymbols ==
    /\ ipc = "lookup"
    /\ \E found \in BOOLEAN :
          /\ ring_buffer_waiting' = found
          /\ IF found
             THEN /\ ipc' = "alloc"
                  /\ init_ret' = init_ret
             ELSE init_return(-ENODEV)
    /\ UNCHANGED <<num_class, next_id, ring_buffer, proc, classes, stream>>

\* ring_buffer_alloc allocates the struct and the per-CPU pages.
ring_buffer_alloc == [struct |-> TRUE, pages |-> TRUE]

\* kfree of the struct ring_buffer: the per-CPU pages stay allocated.
kfree(b) == [b EXCEPT !.struct = FALSE]

\* ring_buffer_free frees the per-CPU pages and the struct.
ring_buffer_free(b) == [struct |-> FALSE, pages |-> FALSE]

\* Lines 319-321.
AllocRingBuffer ==
    /\ ipc = "alloc"
    /\ \E ok \in BOOLEAN :
          IF ok
          THEN /\ ring_buffer' = ring_buffer_alloc
               /\ ipc' = "mkdir"
               /\ init_ret' = init_ret
          ELSE /\ ring_buffer' = ring_buffer
               /\ init_return(-ENOMEM)
    /\ UNCHANGED <<num_class, next_id, ring_buffer_waiting, proc, classes,
                   stream>>

\* Lines 323-325 and the label free (344-347).
ProcMkdir ==
    /\ ipc = "mkdir"
    /\ \E ok \in BOOLEAN :
          IF ok
          THEN /\ proc' = [proc EXCEPT !.dir = TRUE]
               /\ ring_buffer' = ring_buffer
               /\ ipc' = "create"
               /\ init_ret' = init_ret
          ELSE /\ proc' = proc
               /\ ring_buffer' = kfree(ring_buffer)
               /\ init_return(-ENOMEM)
    /\ UNCHANGED <<num_class, next_id, ring_buffer_waiting, classes, stream>>

\* Lines 327-329 and the labels remove_proc and free (342-347).
ProcCreate ==
    /\ ipc = "create"
    /\ \E ok \in BOOLEAN :
          IF ok
          THEN /\ proc' = [proc EXCEPT !.node = TRUE]
               /\ ring_buffer' = ring_buffer
               /\ ipc' = "register"
               /\ init_ret' = init_ret
          ELSE /\ proc' = [dir |-> FALSE, node |-> FALSE]
               /\ ring_buffer' = kfree(ring_buffer)
               /\ init_return(-ENOMEM)
    /\ UNCHANGED <<num_class, next_id, ring_buffer_waiting, classes, stream>>

\* Lines 331-340: one turn of the loop over the class descriptors, or its
\* end and return 0.
RegisterClass ==
    /\ ipc = "register"
    /\ IF next_id < num_class
       THEN /\ classes' = [classes EXCEPT ![next_id] =
                              [id |-> next_id, buffer |-> ring_buffer.struct]]
            /\ next_id' = next_id + 1
            /\ UNCHANGED <<ipc, init_ret>>
       ELSE /\ init_return(0)
            /\ UNCHANGED <<classes, next_id>>
    /\ UNCHANGED <<num_class, ring_buffer_waiting, ring_buffer, proc, stream>>

\* Lines 350-356: print_event_exit of a loaded module, up to
\* remove_proc_subtree.
ExitRemoveProc ==
    /\ ipc = "loaded"
    /\ IF num_class = 0
       THEN /\ ipc' = "unloaded"
            /\ proc' = proc
       ELSE /\ ipc' = "exit_free"
            /\ proc' = [dir |-> FALSE, node |-> FALSE]
    /\ UNCHANGED <<num_class, next_id, ring_buffer_waiting, ring_buffer,
                   classes, init_ret, stream>>

\* Lines 357-360: ring_buffer_free.
ExitFreeBuffer ==
    /\ ipc = "exit_free"
    /\ ring_buffer' = ring_buffer_free(ring_buffer)
    /\ ipc' = "unloaded"
    /\ UNCHANGED <<num_class, next_id, ring_buffer_waiting, proc, classes,
                   init_ret, stream>>

NextStartup ==
    \/ CheckClasses
    \/ LookupSymbols
    \/ AllocRingBuffer
    \/ ProcMkdir
    \/ ProcCreate
    \/ RegisterClass
    \/ ExitRemoveProc
    \/ ExitFreeBuffer

SpecStartup == InitModule /\ [][NextStartup]_vars

(* ------------------------------ claims -------------------------------- *)
Uids == {e.uid : e \in {emitted[i] : i \in 1 .. Len(emitted)}}

Written ==
    UNION {{NCPU * k + c + 1 : k \in 0 .. nwritten[c] - 1} : c \in CPUs}

StoreEmpty == ring_buffer_empty(rb)

\* C1: with every record appended before reading starts, each with its own
\* timestamp and none overwritten, the records come out of the read calls
\* in non-decreasing timestamp order, and once the store is empty every
\* appended record has come out.
C1_ChronologicalOrder ==
    /\ \A i, j \in 1 .. Len(emitted) : i < j => emitted[i].ts <= emitted[j].ts
    /\ StoreEmpty => Written \subseteq Uids

\* C1 witness: CPU 0 held two records and CPU 1 one whose timestamp lies
\* between them; all three have come out, CPU 0, CPU 1, CPU 0, and the
\* store is empty.
C1_Witness ==
    /\ StoreEmpty
    /\ Len(emitted) = 3
    /\ emitted[1].cpu = 0 /\ emitted[2].cpu = 1 /\ emitted[3].cpu = 0
    /\ emitted[1].ts < emitted[2].ts /\ emitted[2].ts < emitted[3].ts

NonEmptyCpus == {c \in CPUs : rb[c] # <<>>}

\* The reference: the non-empty CPU with the least (timestamp, index).
RefMinCpu ==
    CHOOSE c \in NonEmptyCpus :
        \A d \in NonEmptyCpus :
            \/ Head(rb[c]).ts < Head(rb[d]).ts
            \/ Head(rb[c]).ts = Head(rb[d]).ts /\ c <= d

\* The record nx kept by a scan is the oldest of its CPU and the least by
\* (timestamp, CPU index) of the records the scan peeked on the CPUs below
\* upto.
LeastPeeked(nx, upto) ==
    /\ rb[nx.cpu] # <<>> /\ Head(rb[nx.cpu]) = nx.ent
    /\ nx.ts = nx.ent.ts
    /\ nx.cpu < upto
    /\ \A c \in CPUs :
          c < upto /\ reader[c] =>
              \/ nx.ts < Head(rb[c]).ts
              \/ nx.ts = Head(rb[c]).ts /\ nx.cpu <= c

\* __find_next_entry agrees with the reference on the store as it is now.
AgreesWithReference ==
    LET r == find_next_entry(rb, lost)
    IN  /\ (r.ent = NoEnt) <=> StoreEmpty
        /\ StoreEmpty => r.cpu = -1
        /\ ~StoreEmpty =>
              /\ r.cpu = RefMinCpu
              /\ r.ent = Head(rb[RefMinCpu])
              /\ r.ts = Head(rb[RefMinCpu]).ts
              /\ r.lost_events = lost[RefMinCpu]

\* The record a scan in flight has kept so far, and the record a finished
\* scan returned, is the least of the records the scan peeked; a scan that
\* kept nothing found every CPU it visited empty.
ScanSound ==
    \A t \in Threads :
        /\ pc[t] = "next" =>
              IF next[t].ent = NoEnt
              THEN /\ next[t] = NoNext
                   /\ \A c \in CPUs : c < scan_cpu[t] => ~reader[c]
              ELSE LeastPeeked(next[t], scan_cpu[t])
        /\ pc[t] = "fmt" => LeastPeeked(iter[sess[t]], NCPU)

\* C2: on every store state __find_next_entry returns NULL exactly when all
\* CPU buffers are empty, else the oldest record of the CPU with the least
\* timestamp, the lowest CPU index winning a tie.  At every turn of a scan
\* in flight the record kept so far, and in the end the record returned,
\* is still the oldest of its CPU and the least by (timestamp, CPU index)
\* of the records the scan peeked; a scan that returns NULL found every CPU
\* empty when it visited it.  No turn of the scan changes a buffer or a
\* lost count or consumes a record.
C2_PeekGlobalMin ==
    /\ [](AgreesWithReference /\ ScanSound)
    /\ [][\A t \in Threads :
            /\ pc[t] = "next" /\ pc'[t] = "copy" =>
                  /\ iter'[sess[t]] = NoNext
                  /\ \A c \in CPUs : ~reader'[c]
            /\ pc[t] = "next" /\ (pc'[t] # pc[t] \/ scan_cpu'[t] # scan_cpu[t]) =>
                  rb' = rb /\ lost' = lost /\ emitted' = emitted]_vars

\* C2 witness: both CPUs hold a record with the same timestamp and a read
\* call has just peeked the one of CPU 0.
C2_Witness ==
    /\ rb[0] # <<>> /\ rb[1] # <<>>
    /\ Head(rb[0]).ts = Head(rb[1]).ts
    /\ \E t \in Threads : pc[t] = "fmt" /\ iter[sess[t]].cpu = 0


InLoop(t) == pc[t] \in {"next", "fmt"}

\* C3: under every interleaving of the read calls of all sessions, no
\* record is formatted-and-consumed twice, only appended records are, and
\* their count never exceeds the number of records appended.
C3_NoDoubleConsume ==
    /\ \A i, j \in 1 .. Len(emitted) : i # j => emitted[i].uid # emitted[j].uid
    /\ Uids \subseteq Written
    /\ Len(emitted) <= NWritten

\* C3 witness: two read calls on different sessions race for the store, one
\* inside the format loop holding a record, the other at the store-wide
\* lock, after a record has already been emitted.
C3_Witness ==
    /\ Len(emitted) >= 1
    /\ \E t, u \in Threads :
          /\ sess[t] # sess[u]
          /\ pc[t] = "fmt"
          /\ pc[u] = "access"

\* C4: only the holder of access_lock is between its peek and its consume,
\* so at most one read call is there at a time, and the record a consume
\* removes is the record that call peeked and formatted.
C4_AccessLockSerializes ==
    /\ \A t \in Threads : InLoop(t) => access_lock = t
    /\ \A t, u \in Threads : InLoop(t) /\ InLoop(u) => t = u
    /\ \A i \in 1 .. Len(emitted) : emitted[i].gone = emitted[i].uid

\* C4 witness: a call holds a peeked record while a producer has appended
\* behind it on the same CPU and a call of another session waits for the
\* lock.
C4_Witness ==
    \E t, u \in Threads :
        /\ sess[t] # sess[u]
        /\ pc[t] = "fmt"
        /\ Len(rb[iter[sess[t]].cpu]) = 2
        /\ pc[u] = "access"


\* C5 (as claimed): a record whose line was rolled back is the first one
\* formatted by the next attempt, into an empty output buffer, and is then
\* emitted in full: the format step of the first record of a batch, taken
\* on an empty output buffer, writes the line and consumes the record.
C5_PartialLineSafety ==
    [][\A t \in Threads :
         ( /\ pc[t] = "fmt"
           /\ pc'[t] # "fmt"
           /\ seq[sess[t]].len = 0 )
         => /\ Len(emitted') = Len(emitted) + 1
            /\ emitted'[Len(emitted')].uid = iter[sess[t]].ent.uid]_vars

NoLeftover(q) == trace_seq_used(q) <= q.readpos

\* The steps of a read call up to its emptiness check.
BeforeCheck(t) == pc[t] \in {"idle", "ret", "waitagain", "wait_pipe"}

\* C6 (as claimed): every step up to the emptiness check of a non-blocking
\* read call on a globally empty store leaves the per-CPU buffers and the
\* cursors of the session unchanged, never enters the wait, and if it
\* returns, returns WouldBlock.  (Stated for calls of length >= 1 with no
\* fatal signal pending, where it already fails.)
C6_Original ==
    [][\A t \in Threads :
         LET s == sess'[t]
         IN  ( /\ StoreEmpty
               /\ BeforeCheck(t)
               /\ f_flags[s]
               /\ ~fatal_signal_pending(t)
               /\ \/ pc'[t] # pc[t]
                  \/ scan_cpu'[t] # scan_cpu[t]
                  \/ \E n \in CntSet \ {0} : FlushLeftover(t, s, n)
               /\ pc[t] \in {"idle", "ret"} =>
                      \E n \in CntSet \ {0} : FlushLeftover(t, s, n) )
             => /\ pc'[t] # "waiting"
                /\ pc'[t] = "ret" => sret'[t] = -EAGAIN
                /\ rb' = rb /\ lost' = lost /\ emitted' = emitted
                /\ seq'[s].len = seq[s].len
                /\ seq'[s].readpos = seq[s].readpos]_vars

\* C6 (amended): every step up to the emptiness check of a non-blocking
\* read call of length >= 1, on a session without unflushed text, with no
\* fatal signal pending and the store globally empty, leaves the per-CPU
\* buffers unchanged, consumes nothing, never enters the wait, advances no
\* cursor of the session (a drained buffer is reset to zero), and if it
\* returns, returns WouldBlock.
C6_NonBlocking ==
    [][\A t \in Threads :
         LET s == sess'[t]
         IN  ( /\ StoreEmpty
               /\ BeforeCheck(t)
               /\ f_flags[s]
               /\ IF pc[t] \in {"idle", "ret"}
                  THEN \E n \in CntSet \ {0} : FlushLeftover(t, s, n)
                  ELSE /\ pc'[t] # pc[t] \/ scan_cpu'[t] # scan_cpu[t]
                       /\ cnt[t] >= 1
               /\ NoLeftover(seq[s])
               /\ ~fatal_signal_pending(t) )
             => /\ pc'[t] \in {"waitagain", "wait_pipe", "ret"}
                /\ pc'[t] = "ret" => sret'[t] = -EAGAIN
                /\ rb' = rb /\ lost' = lost /\ emitted' = emitted
                /\ seq'[s].len <= seq[s].len
                /\ seq'[s].readpos <= seq[s].readpos
                /\ NoLeftover(seq'[s])]_vars

\* C6 witness: a non-blocking call has returned WouldBlock on an empty
\* store after records went through the session.
C6_Witness ==
    \E t \in Threads :
        /\ pc[t] = "ret" /\ sret[t] = -EAGAIN
        /\ f_flags[sess[t]]
        /\ StoreEmpty
        /\ Len(emitted) >= 1

Active(t) == pc[t] \notin {"idle", "ret"}

Holding(t) ==
    pc[t] \in {"waitagain", "wait_pipe", "recheck", "access", "next", "fmt",
               "copy"}

\* C7 (as claimed): once a read call on a session is past the flush-leftover
\* step, no other read call on that session gets past it until the first
\* has returned.
C7_Original ==
    \A t, u \in Threads :
        t # u /\ sess[t] = sess[u] => ~(Active(t) /\ Active(u))

\* C7 (amended): every step of a read call that reads or writes the session
\* runs with the lock of its session held, and at most one call holds it; a
\* call asleep in the blocking wait, or woken and about to retake the lock,
\* does not hold it, so another call on the session can run meanwhile.
C7_SessionLock ==
    /\ \A t \in Threads : Holding(t) => mutex[sess[t]] = t
    /\ \A t, u \in Threads :
          t # u /\ sess[t] = sess[u] => ~(Holding(t) /\ Holding(u))
    /\ \A t \in Threads : pc[t] \in {"waiting", "woken"} => mutex[sess[t]] # t

\* C7 witness: one call sleeps in the wait while another call on the same
\* session is inside the format loop.
C7_Witness ==
    \E t, u \in Threads :
        /\ t # u /\ sess[t] = sess[u]
        /\ pc[t] = "waiting"
        /\ pc[u] = "fmt"

\* C8: with a fatal signal pending, a read call at the label waitagain
\* returns in its next step; a call in the wait leaves the wait with the
\* error of the interrupted wait in its next step, whatever the store holds,
\* and, once it has the session lock again, returns that error.  None of
\* these steps changes a per-CPU buffer or consumes a record, and the call
\* returns without the session lock.
C8_Cancellation ==
    [][\A t \in Threads :
         /\ ( /\ fatal_signal_pending(t)
              /\ pc[t] = "waitagain"
              /\ pc'[t] # pc[t] )
            => /\ pc'[t] = "ret"
               /\ rb' = rb /\ lost' = lost /\ emitted' = emitted
               /\ mutex'[sess[t]] # t
         /\ ( /\ fatal_signal_pending(t)
              /\ pc[t] = "waiting"
              /\ pc'[t] # pc[t] )
            => /\ pc'[t] = "woken"
               /\ ret'[t] = -EINTR
               /\ rb' = rb /\ lost' = lost /\ emitted' = emitted
         /\ ( /\ pc[t] = "woken"
              /\ ret[t] = -EINTR
              /\ pc'[t] # pc[t] )
            => /\ pc'[t] = "ret"
               /\ sret'[t] = -EINTR
               /\ rb' = rb /\ lost' = lost /\ emitted' = emitted
               /\ mutex'[sess[t]] # t]_vars

\* C8 witness: a call blocked in the wait was cancelled and has returned.
C8_Witness ==
    \E t \in Threads :
        /\ pc[t] = "ret" /\ sigp[t] = "fatal" /\ sret[t] = -EINTR
        /\ StoreEmpty

\* C9 (as claimed): a read call returns a byte count, zero, WouldBlock or
\* Cancelled, never the -EBUSY of an empty output buffer.
C9_ReturnValues ==
    \A t \in Threads :
        pc[t] = "ret" => sret[t] >= 0 \/ sret[t] \in {-EAGAIN, -EINTR}

Registered(id) == id \in 0 .. NumClass - 1

\* C10: a record with an unregistered ID is formatted as the placeholder
\* line carrying that ID whenever the line fits, the format then succeeds,
\* and every such record that was consumed has that line written for it.
C10_UnknownIdFallback ==
    /\ \A t \in Threads :
          LET s == sess[t]
              ent == iter[s].ent
              f == print_trace_fmt_line(seq[s], ent)
          IN  pc[t] = "fmt" /\ ~Registered(ent.id) =>
                IF seq[s].len + UnknownLen(ent.id) < PAGE_SIZE
                THEN /\ f.ret = TRACE_TYPE_HANDLED
                     /\ f.seq.buf = Append(seq[s].buf,
                            [fmt |-> "Unknown id", uid |-> ent.uid,
                             id |-> ent.id, n |-> UnknownLen(ent.id)])
                     /\ f.seq.len = seq[s].len + UnknownLen(ent.id)
                ELSE f.ret = TRACE_TYPE_PARTIAL_LINE
    /\ \A i \in 1 .. Len(emitted) :
          ~Registered(emitted[i].id) =>
              emitted[i].line = [fmt |-> "Unknown id", uid |-> emitted[i].uid,
                                 id |-> emitted[i].id,
                                 n |-> UnknownLen(emitted[i].id)]

\* C10 witness: a record with an unregistered ID has been consumed.
C10_Witness ==
    \E i \in 1 .. Len(emitted) :
        /\ ~Registered(emitted[i].id)
        /\ emitted[i].line.fmt = "Unknown id"

\* C15 (as claimed): a read call in flight while the store is not empty
\* eventually returns to the caller, or sleeps in the wait on a store that
\* was emptied meanwhile; it does not go round the retry path for ever.
C15_Termination ==
    \A t \in Threads :
        (Active(t) /\ ~StoreEmpty) ~>
            (pc[t] = "ret" \/ (pc[t] = "waiting" /\ StoreEmpty))

\* The bytes of the output buffer not yet returned to a caller.
Unflushed(q) ==
    IF trace_seq_used(q) > q.readpos THEN trace_seq_used(q) - q.readpos ELSE 0

\* Thread t returns from a read call in this step: its call in flight gets
\* to the label out, or the flush step of a new call of t returns.
Returns(t) ==
    /\ pc'[t] = "ret"
    /\ Active(t) \/ ncalls'[t] # ncalls[t]

\* C16 (as claimed): the unflushed text of an open session shrinks only by
\* what a read call on that session returns in the same step; no reset or
\* zero-fill drops text that no caller got.
C16_NoTextDiscarded ==
    [][\A s \in Sessions :
         opened[s] /\ Unflushed(seq'[s]) < Unflushed(seq[s]) =>
            \E t \in Threads :
                /\ Returns(t)
                /\ sess'[t] = s
                /\ sret'[t] >= Unflushed(seq[s]) - Unflushed(seq'[s])]_vars

\* C17: a read call of length n on a session that holds unflushed text
\* returns min(n, unflushed) bytes in its first step and advances the read
\* cursor by as much; that step peeks and consumes nothing, does not wait,
\* takes neither lock with it and leaves the per-CPU buffers unchanged.
C17_FlushLeftoverFrame ==
    [][\A t \in Threads, s \in Sessions, n \in CntSet :
         ( /\ ncalls'[t] # ncalls[t]
           /\ Unflushed(seq[s]) > 0
           /\ FlushLeftover(t, s, n) ) =>
            LET k == Min(n, Unflushed(seq[s]))
            IN  /\ pc'[t] = "ret"
                /\ sret'[t] = k
                /\ seq'[s] = [seq[s] EXCEPT !.readpos = @ + k]
                /\ rb' = rb /\ lost' = lost /\ reader' = reader
                /\ iter' = iter /\ emitted' = emitted
                /\ access_lock' = access_lock /\ mutex' = mutex]_vars

\* C17 witness: a call has returned the last 500 bytes of a line as
\* leftover; the buffer is read to its end and not yet reset.
C17_Witness ==
    \E t \in Threads :
        LET q == seq[sess[t]]
        IN  /\ pc[t] = "ret" /\ sret[t] = 500
            /\ q.len > 0 /\ q.readpos = q.len

\* The lines of the records consumed so far, in consumption order.
Lines == [i \in 1 .. Len(emitted) |-> emitted[i].line]

\* The length in bytes of a sequence of lines.
RECURSIVE Bytes(_)
Bytes(ls) == IF ls = <<>> THEN 0 ELSE Head(ls).n + Bytes(Tail(ls))

\* The output buffer of session s holds the last lines consumed, whole and
\* in order, and its cursors are within them.
BufIsTail(s) ==
    LET b == seq[s].buf
    IN  /\ Len(b) <= Len(Lines)
        /\ b = SubSeq(Lines, Len(Lines) - Len(b) + 1, Len(Lines))
        /\ seq[s].len = Bytes(b)
        /\ seq[s].readpos <= seq[s].len

\* The bytes thread t gets in this step.
Returned(t) == IF Returns(t) /\ sret'[t] > 0 THEN sret'[t] ELSE 0

\* C18: for the single reader, every read returns at most the requested
\* length; in every step of an open session the bytes of the lines newly
\* consumed equal the bytes returned plus the growth of the unflushed text,
\* and the output buffer is the tail of the consumed lines: the bytes
\* returned so far are the prefix of the concatenated lines, none lost,
\* repeated or reordered.
C18_ChunkingTransparent ==
    [][/\ \A n \in CntSet : FlushLeftover(1, 1, n) => sret'[1] <= n
       /\ Active(1) /\ Returns(1) => sret'[1] <= cnt[1]
       /\ opened[1] =>
              Bytes(Lines') - Bytes(Lines) =
                  Returned(1) + Unflushed(seq'[1]) - Unflushed(seq[1])
       /\ BufIsTail(1)']_vars

\* C18 witness: the single reader has consumed two lines in three reads
\* of different lengths and holds the last 500 bytes of the second.
C18_Witness ==
    /\ Len(emitted) = 2
    /\ NCalls = 3
    /\ pc[1] = "ret" /\ sret[1] = 2000
    /\ Unflushed(seq[1]) = 500
    /\ pc[2] = "idle"

\* A call asleep in the wait with nothing to wake it.
Asleep(t) == pc[t] = "waiting" /\ StoreEmpty /\ ~signal_pending(t)

\* C19: a call in the wait, or woken from it and not yet past line 92,
\* holds neither its session lock nor the
\* store-wide lock; the store-wide lock is held only inside the format
\* loop, by a call that holds its session lock, and is asked for only with
\* the session lock held; and whenever a call is in flight and not asleep
\* on the empty store, some call can take a step (no deadlock).
C19_NoLockAcrossWait ==
    /\ \A t \in Threads :
          pc[t] \in {"waiting", "woken"} =>
              mutex[sess[t]] # t /\ access_lock # t
    /\ access_lock # NoThread =>
          InLoop(access_lock) /\ mutex[sess[access_lock]] = access_lock
    /\ \A t \in Threads : pc[t] = "access" => mutex[sess[t]] = t
    /\ (\E t \in Threads : Active(t) /\ ~Asleep(t)) =>
          \E u \in Threads : ENABLED CallStep(u)

\* C19 witness: one call is in the wait, woken by a record, while a call
\* on the other session is inside the format loop with both of its locks.
C19_Witness ==
    \E t, u \in Threads :
        /\ pc[t] = "waiting" /\ ~StoreEmpty
        /\ sess[u] # sess[t]
        /\ pc[u] = "fmt" /\ access_lock = u /\ mutex[sess[u]] = u

\* C20 (as claimed, for calls of length >= 1 past the flush step): a
\* blocking call with no signal pending does not return while the store is
\* empty before and after its step and the output buffer of its session is
\* empty, except with 0 from the recheck; and a call returns 0 only from
\* the last turn of its recheck, which has then seen every CPU empty, and
\* never while its session holds unflushed text.
C20_ZeroMeansNoData ==
    [][\A t \in Threads :
         LET s == sess[t]
         IN  /\ ( /\ Active(t) /\ Returns(t)
                  /\ ~f_flags[s] /\ ~signal_pending(t)
                  /\ StoreEmpty /\ StoreEmpty'
                  /\ Unflushed(seq[s]) = 0 )
                => pc[t] = "recheck" /\ sret'[t] = 0
             /\ Active(t) /\ Returns(t) /\ sret'[t] = 0
                => /\ pc[t] = "recheck"
                   /\ scan_cpu[t] = NCPU - 1
                   /\ ring_buffer_empty_cpu(rb, scan_cpu[t])
                   /\ Unflushed(seq[s]) = 0
                   /\ Unflushed(seq'[s]) = 0]_vars

\* print_event_init has returned.
InitReturned == ipc \in {"loaded", "failed", "exit_free", "unloaded"}

\* Every class has its ID and is bound to the allocated store.
AllRegistered ==
    \A k \in 0 .. num_class - 1 : classes[k] = [id |-> k, buffer |-> TRUE]

\* C11 (as claimed): a successful startup leaves the k-th class with ID k and
\* bound to the store, and startup fails with the too-many-classes error
\* only when the class count exceeds the range of the ID field
\* (2^8 - 1 = 255 for the 8-bit ID).
C11_Registration ==
    InitReturned =>
        /\ init_ret = 0 /\ num_class > 0 /\ ipc = "loaded" => AllRegistered
        /\ init_ret = -EINVAL => num_class > PRINT_EVENT_ID_MAX
        /\ num_class <= PRINT_EVENT_ID_MAX => init_ret # -EINVAL

\* C12 (as claimed): after print_event_init returned an error, nothing of
\* the store is allocated, nothing is published and no class is bound.
C12_AllOrNothing ==
    ipc = "failed" =>
        /\ init_ret # 0
        /\ ring_buffer = [struct |-> FALSE, pages |-> FALSE]
        /\ proc = [dir |-> FALSE, node |-> FALSE]
        /\ \A k \in 0 .. num_class - 1 : ~classes[k].buffer

\* C13 (as claimed): while the node trace_pipe is published, every class
\* has its ID and its store binding, and teardown undoes the steps in the
\* reverse order: once the store is freed no class is bound to it.
C13_StartupOrder ==
    /\ proc.node => AllRegistered
    /\ ipc = "unloaded" /\ num_class > 0 =>
          \A k \in 0 .. num_class - 1 : ~classes[k].buffer

\* The number of records consumed from a CPU so far.
Consumed(c) == Cardinality({i \in 1 .. Len(emitted) : emitted[i].cpu = c})

\* C14: the lost count the merge attaches to the record it selects is the
\* count of that record's own CPU at the peek, and the peek of a later CPU
\* that is not selected leaves it alone; before the first consume on the
\* CPU it is the number written less the number still held, which is
\* K - C after K records went into a full, unread buffer of capacity C.
C14_LostEvents ==
    [][\A t \in Threads :
         pc[t] = "next" /\ (pc'[t] # pc[t] \/ scan_cpu'[t] # scan_cpu[t]) =>
            LET c == scan_cpu[t]
                res == IF c + 1 < NCPU THEN next'[t] ELSE iter'[sess[t]]
            IN  IF res.ent # NoEnt /\ res.cpu = c
                THEN /\ res.lost_events = lost[c]
                     /\ Consumed(c) = 0 =>
                            res.lost_events = nwritten[c] - Len(rb[c])
                     /\ Consumed(c) = 0 /\ ~reader[c] /\ nwritten[c] > RBCap =>
                            res.lost_events = nwritten[c] - RBCap
                ELSE res = next[t]]_vars

\* C14 witness: the selected record is the survivor of an overwritten CPU
\* (K = C + 1 records written, one lost), and the other CPU, peeked in the
\* same scan, holds a record and another lost count.
C14_Witness ==
    \E t \in Threads :
        LET it == iter[sess[t]]
        IN  /\ pc[t] = "fmt"
            /\ it.lost_events = 1
            /\ Consumed(it.cpu) = 0
            /\ nwritten[it.cpu] = RBCap + 1
            /\ \E d \in CPUs \ {it.cpu} : rb[d] # <<>> /\ lost[d] # 1

====
